---- MODULE Spec2Model ----
(***************************************************************************)
(* Model of langfuse-observability: the asynchronous job pipeline          *)
(* (api/main.py, worker/tasks.py, worker/celery_app.py), the polling       *)
(* client (client_example_async.py) and the trace mapper                   *)
(* (shared/bedrock_mapper.py).                                             *)
(*                                                                         *)
(* Two stores hold the state of a job.  The job record  job:<id>  is       *)
(* written once by POST /register-traces into Redis; the task state is     *)
(* written by the Celery worker into the result backend and is what the    *)
(* GET endpoints read through AsyncResult.                                 *)
(***************************************************************************)
EXTENDS Integers, Sequences, FiniteSets, Bags, TLC

\* ---------------------------------------------------------------- bounds
MaxJobs == 1          \* POST /register-traces calls in one behaviour
NumWorkers == 2       \* worker processes of the pool
MaxCrashes == 1       \* worker crashes in one behaviour
MaxWaitPolls == 2     \* max_wait_time / poll_interval of the client
MaxTraces == 2        \* trace events in one request
MaxClock == 2         \* readings of the clock during one request

\* ------------------------------------------------------ program constants
MaxRetries == 3          \* self.retry(..., max_retries=3)
RetryCountdown == 60     \* self.retry(..., countdown=60)
ResultExpires == 3600    \* result_expires
RecordTTL == 86400       \* redis_client.setex(key, 86400, ...)

\* every identifier comes from uuid4(): one per POST for job_id, one per
\* send_task for task.id
Ids == 1..(2 * MaxJobs)

NoRecord == [status |-> "absent", job_id |-> 0, original_job_id |-> 0]
NoEntry == [state |-> "NONE", info |-> ""]

VARIABLES
    store,         \* Redis: job:<id> -> job metadata (or NoRecord)
    backend,       \* Celery result backend: task id -> state and info
    queue,         \* broker queue "traces": bag of task messages
    workers,       \* bag of busy workers: position in process_traces, unacked message
    crashes,       \* worker crashes so far
    sentLog,       \* task ids handed to send_task, in order
    postLog,       \* answers of POST /register-traces, in order
    delivered,     \* Langfuse: task id -> hierarchies registered for the job
    client         \* wait_for_job_completion of one client

VARIABLES
    traces,            \* request.traces of the request being registered
    trace_index,       \* events of request.traces the registrar has gone through
    processed_objects, \* register_traces: kinds of the objects created and counted
    totals,            \* register_traces: total_generations .. total_events
    attached,          \* observations started on the Langfuse client, in order
    mapOut,            \* what map_bedrock_trace gave for the first events of traces
    summary,           \* the dictionary register_traces returns (status "" before)
    phase,             \* register_traces: loop, summarized, flushed, returned, raised
    earlier,           \* the request registered before this one, and its result
    exported           \* TraceRegistrar.register_traces: its calls and its result

mapVars ==
    <<traces, trace_index, processed_objects, totals, attached, mapOut, summary,
      phase, earlier, exported>>

vars ==
    <<store, backend, queue, workers, crashes, sentLog, postLog, delivered, client,
      mapVars>>

pipeVars == <<store, backend, queue, workers, crashes, sentLog, postLog, delivered>>

\* ------------------------------------------------------------ formatting
\* str(task_result.info) when info is the meta dict given to update_state
StrOfMeta(status, err) == "{status: " \o status \o ", error: " \o err \o "}"
\* str(task_result.info) when info is the exception Celery stored
StrOfExc(err) == err

\* task_result.state: a task id without an entry in the backend is PENDING
AsyncResultState(j) ==
    IF backend[j].state = "NONE" THEN "PENDING" ELSE backend[j].state

\* str.lower() on the Celery state names
Lower(s) ==
    CASE s = "PENDING" -> "pending"
      [] s = "STARTED" -> "started"
      [] s = "PROCESSING" -> "processing"
      [] s = "SUCCESS" -> "success"
      [] s = "FAILURE" -> "failure"
      [] s = "RETRY" -> "retry"
      [] OTHER -> s

\* ------------------------------------------------------- GET /job-status
get_job_status(j) ==
    IF store[j] = NoRecord
    THEN [code |-> 404, status |-> "", error |-> "", result |-> ""]
    ELSE LET st == AsyncResultState(j) IN
         CASE st = "PENDING" ->
                [code |-> 200, status |-> "pending", error |-> "", result |-> ""]
           [] st = "PROCESSING" ->
                [code |-> 200, status |-> "processing", error |-> "", result |-> ""]
           [] st = "SUCCESS" ->
                [code |-> 200, status |-> "completed", error |-> "", result |-> backend[j].info]
           [] st = "FAILURE" ->
                [code |-> 200, status |-> "failed", error |-> backend[j].info,
                 result |-> ""]
           [] OTHER ->
                [code |-> 200, status |-> Lower(st), error |-> "", result |-> ""]

\* ------------------------------------------------------- GET /job-result
get_job_result(j) ==
    LET st == AsyncResultState(j) IN
    CASE st = "PENDING" -> [code |-> 202, status |-> "", error |-> "", result |-> ""]
      [] st = "PROCESSING" -> [code |-> 202, status |-> "", error |-> "", result |-> ""]
      [] st = "SUCCESS" ->
            [code |-> 200, status |-> "completed", error |-> "", result |-> backend[j].info]
      [] st = "FAILURE" ->
            [code |-> 500, status |-> "", error |-> backend[j].info, result |-> ""]
      [] OTHER ->
            [code |-> 500, status |-> "", error |-> "Unknown job state", result |-> ""]

\* ------------------------------------------------------------------ Init
NoCounts ==
    [generations |-> 0, tools |-> 0, retrievers |-> 0, spans |-> 0,
     guardrails |-> 0, events |-> 0]

NoSummary ==
    [status |-> "", processed_traces |-> 0, created_objects |-> 0,
     object_counts |-> NoCounts]

\* no request has been registered before
NoEarlier ==
    [status |-> "", traces |-> <<>>, created_objects |-> 0, object_counts |-> NoCounts]

\* TraceRegistrar.register_traces has not been called
NoExport == [calls |-> <<>>, result |-> [status |-> ""]]

\* a registrar that has been given the request batch
RegistrarInit(batch) ==
    /\ traces = batch
    /\ trace_index = 0
    /\ processed_objects = <<>>
    /\ totals = NoCounts
    /\ attached = <<>>
    /\ mapOut = <<>>
    /\ summary = NoSummary
    /\ phase = "loop"
    /\ earlier = NoEarlier
    /\ exported = NoExport

PipeInit ==
    /\ store = [j \in Ids |-> NoRecord]
    /\ backend = [j \in Ids |-> NoEntry]
    /\ queue = EmptyBag
    /\ workers = EmptyBag
    /\ crashes = 0
    /\ sentLog = <<>>
    /\ postLog = <<>>
    /\ delivered = [j \in Ids |-> 0]
    /\ client = [pc |-> "idle", job |-> 0, elapsed |-> 0, ret |-> ""]

Init == PipeInit /\ RegistrarInit(<<>>)

\* -------------------------------------------------- POST /register-traces
\* uuid.uuid4(): the n-th value drawn in the API process
Uuid4(n) == n

\* celery_app.send_task('process_traces', ...): the queue library issues
\* the task id and publishes one message
send_task(taskId) ==
    /\ queue' = queue (+) SetToBag({[id |-> taskId, retries |-> 0, countdown |-> 0]})
    /\ sentLog' = Append(sentLog, taskId)

\* (variant) the caller-generated uuid is used as key and answer
JobKeyFromCaller(job_id, task_id) == job_id

\* the key of the job record and the job_id answered: task.id
JobKey(job_id, task_id) == task_id

\* outcome "ok": the handler runs to its return;
\* outcome "broker_down": send_task raises, the handler answers 500;
\* outcome "store_down": redis_client.setex raises after send_task, answer 500
register_traces(outcome) ==
    /\ Len(postLog) < MaxJobs
    /\ LET job_id == Uuid4(2 * Len(postLog) + 1)
           task_id == Uuid4(2 * Len(postLog) + 2)
           key == JobKey(job_id, task_id)
       IN
       CASE outcome = "broker_down" ->
              /\ postLog' = Append(postLog, [code |-> 500, job_id |-> 0, status |-> ""])
              /\ UNCHANGED <<store, queue, sentLog>>
         [] outcome = "store_down" ->
              /\ send_task(task_id)
              /\ postLog' = Append(postLog, [code |-> 500, job_id |-> 0, status |-> ""])
              /\ UNCHANGED store
         [] OTHER ->
              /\ send_task(task_id)
              /\ store' = [store EXCEPT ![key] =
                              [status |-> "pending", job_id |-> key,
                               original_job_id |-> job_id]]
              /\ postLog' = Append(postLog, [code |-> 200, job_id |-> key,
                                             status |-> "pending"])
    /\ UNCHANGED <<backend, workers, crashes, client, mapVars, delivered>>

\* ----------------------------------------------------------- the worker
\* the bag with the one element x
One(x) == SetToBag({x})

\* a busy worker: its position in process_traces and the message it holds
Busy(pc, msg) == [pc |-> pc, msg |-> msg]

\* a busy worker moves from position e to position f
Move(e, f) == workers' = (workers (-) One(e)) (+) One(f)

StoreResult(j, state, info) ==
    backend' = [backend EXCEPT ![j] = [state |-> state, info |-> info]]

\* the exception an attempt fails with; each attempt has its own, so that
\* the errors of different attempts can be told apart
ExcOfAttempt(retries) ==
    CASE retries = 0 -> "E0"
      [] retries = 1 -> "E1"
      [] retries = 2 -> "E2"
      [] OTHER -> "E3"

\* An idle worker (prefetch multiplier 1: a worker holds at most one
\* unacknowledged message) takes a message; task_track_started makes the
\* worker record STARTED before the body runs.  task_acks_late: the message
\* stays unacknowledged, held by the worker.
WorkerTake(m) ==
    /\ BagCardinality(workers) < NumWorkers
    /\ BagIn(m, queue)
    /\ queue' = queue (-) One(m)
    /\ workers' = workers (+) One(Busy("started", m))
    /\ StoreResult(m.id, "STARTED", "")
    /\ UNCHANGED <<store, crashes, sentLog, postLog, client, mapVars, delivered>>

\* process_traces, lines 39-47: update_state(state="PROCESSING", ...)
ProcessTracesBegin(m) ==
    /\ BagIn(Busy("started", m), workers)
    /\ StoreResult(m.id, "PROCESSING", StrOfMeta("processing", ""))
    /\ Move(Busy("started", m), Busy("processing", m))
    /\ UNCHANGED <<store, queue, crashes, sentLog, postLog, client, mapVars, delivered>>

\* process_traces, lines 49-68: a new TraceRegistrar registers the request
\* (a new root span and its children, sent to Langfuse by force_flush) and
\* returns, the task returns its result; the worker records SUCCESS with
\* the returned dict
ProcessTracesReturn(m) ==
    /\ BagIn(Busy("processing", m), workers)
    /\ delivered' = [delivered EXCEPT ![m.id] = @ + 1]
    /\ StoreResult(m.id, "SUCCESS", "success")
    /\ Move(Busy("processing", m), Busy("ack", m))
    /\ UNCHANGED <<store, queue, crashes, sentLog, postLog, client, mapVars>>

\* the state the except clause of process_traces writes before retrying
ExceptState == "FAILURE"

\* process_traces, lines 70-83: an exception in the body is caught and
\* update_state(state="FAILURE", meta={..., "error": str(exc)}) is written
ProcessTracesExcept(m) ==
    /\ BagIn(Busy("processing", m), workers)
    /\ StoreResult(m.id, ExceptState, StrOfMeta("failed", ExcOfAttempt(m.retries)))
    /\ Move(Busy("processing", m), Busy("raised", m))
    /\ UNCHANGED <<store, queue, crashes, sentLog, postLog, client, mapVars, delivered>>

\* Task.retry: a retry is published while retries + 1 <= max_retries
RetryAllowed(retries, max_retries) == retries + 1 <= max_retries

\* process_traces, line 86: raise self.retry(exc=exc, countdown=60, max_retries=3)
\* Within the budget the task is published again under the same id with
\* retries + 1 and the worker records RETRY; beyond it exc is raised and the
\* worker records FAILURE with the exception.
ProcessTracesRetry(m) ==
    /\ BagIn(Busy("raised", m), workers)
    /\ IF RetryAllowed(m.retries, MaxRetries)
       THEN /\ queue' = queue (+) One([id |-> m.id, retries |-> m.retries + 1,
                                       countdown |-> RetryCountdown])
            /\ StoreResult(m.id, "RETRY", StrOfExc(ExcOfAttempt(m.retries)))
       ELSE /\ StoreResult(m.id, "FAILURE", StrOfExc(ExcOfAttempt(m.retries)))
            /\ UNCHANGED queue
    /\ Move(Busy("raised", m), Busy("ack", m))
    /\ UNCHANGED <<store, crashes, sentLog, postLog, client, mapVars, delivered>>

\* task_acks_late: the message is acknowledged after the task has returned
\* or raised and its state has been recorded; the worker is idle again
WorkerAck(m) ==
    /\ BagIn(Busy("ack", m), workers)
    /\ workers' = workers (-) One(Busy("ack", m))
    /\ UNCHANGED <<store, backend, queue, crashes, sentLog, postLog, client, mapVars, delivered>>

\* (variant) the message of a worker that dies was acknowledged when it was
\* taken: nothing is delivered again
WorkerCrashAcked(e) ==
    /\ BagIn(e, workers)
    /\ crashes < MaxCrashes
    /\ crashes' = crashes + 1
    /\ workers' = workers (-) One(e)
    /\ UNCHANGED <<queue, store, backend, sentLog, postLog, client, mapVars, delivered>>

\* a worker dies while holding an unacknowledged message: the broker
\* delivers the message again (visibility timeout), the worker restarts
WorkerCrash(e) ==
    /\ BagIn(e, workers)
    /\ crashes < MaxCrashes
    /\ crashes' = crashes + 1
    /\ queue' = queue (+) One(e.msg)
    /\ workers' = workers (-) One(e)
    /\ UNCHANGED <<store, backend, sentLog, postLog, client, mapVars, delivered>>

\* a task is at rest: no message of it is queued or held by a worker
AtRest(j) ==
    /\ \A m \in BagToSet(queue) : m.id # j
    /\ \A e \in BagToSet(workers) : e.msg.id # j

\* result_expires: the backend drops the entry of a task one hour after it
\* was last written
ResultExpiry(j) ==
    /\ backend[j].state \in {"SUCCESS", "FAILURE"}
    /\ AtRest(j)
    /\ backend' = [backend EXCEPT ![j] = NoEntry]
    /\ UNCHANGED <<store, queue, workers, crashes, sentLog, postLog, client, mapVars, delivered>>

\* setex(..., 86400, ...): Redis drops the job record 24 hours after creation
RecordExpiry(j) ==
    /\ store[j] # NoRecord
    /\ store' = [store EXCEPT ![j] = NoRecord]
    /\ UNCHANGED <<backend, queue, workers, crashes, sentLog, postLog, client, mapVars, delivered>>

\* ------------------------------------------------------------ the client
\* AsyncLangfuseObservabilityClient.get_job_status: raise_for_status turns
\* every 4xx/5xx answer into {"status": "unknown"}
ClientGetJobStatus(j) ==
    LET r == get_job_status(j) IN
    IF r.code >= 400 THEN "unknown" ELSE r.status

\* AsyncLangfuseObservabilityClient.get_job_result: 202 gives None, every
\* 4xx/5xx answer gives {"status": "failed"}
ClientGetJobResult(j) ==
    LET r == get_job_result(j) IN
    IF r.code = 202 THEN "None"
    ELSE IF r.code >= 400 THEN "failed" ELSE r.status

\* wait_for_job_completion(job_id, poll_interval, max_wait_time) is called
ClientStart(j) ==
    /\ client.pc = "idle"
    /\ client' = [pc |-> "loop", job |-> j, elapsed |-> 0, ret |-> ""]
    /\ UNCHANGED <<pipeVars, mapVars>>

\* one iteration of the while loop: status = self.get_job_status(job_id)
ClientPollStatus ==
    /\ client.pc = "loop"
    /\ client.elapsed < MaxWaitPolls
    /\ LET st == ClientGetJobStatus(client.job) IN
          client' = CASE st = "completed" -> [client EXCEPT !.pc = "fetch"]
                      [] st = "failed" -> [client EXCEPT !.pc = "done", !.ret = "failed"]
                      [] OTHER -> [client EXCEPT !.elapsed = @ + 1]
    /\ UNCHANGED <<pipeVars, mapVars>>

\* status was completed: result = self.get_job_result(job_id)
ClientFetchResult ==
    /\ client.pc = "fetch"
    /\ LET r == ClientGetJobResult(client.job) IN
          IF r = "None"
          THEN \E d \in {0, 1} :
                  client' = [client EXCEPT !.pc = "loop",
                                           !.elapsed = IF @ + d > MaxWaitPolls
                                                       THEN MaxWaitPolls ELSE @ + d]
          ELSE client' = [client EXCEPT !.pc = "done", !.ret = r]
    /\ UNCHANGED <<pipeVars, mapVars>>

\* (variant) the client records its timeout in the job record
ClientTimeoutMarksStore ==
    /\ client.pc = "loop"
    /\ client.elapsed >= MaxWaitPolls
    /\ client' = [client EXCEPT !.pc = "done", !.ret = "timeout"]
    /\ store' = [store EXCEPT ![client.job] = [@ EXCEPT !.status = "timeout"]]
    /\ UNCHANGED <<backend, queue, workers, crashes, sentLog, postLog, mapVars, delivered>>

\* (variant) the client revokes the task when its wait runs out
ClientTimeoutRevokes ==
    /\ client.pc = "loop"
    /\ client.elapsed >= MaxWaitPolls
    /\ client' = [client EXCEPT !.pc = "done", !.ret = "timeout"]
    /\ queue' = [m \in {x \in BagToSet(queue) : x.id # client.job} |-> queue[m]]
    /\ UNCHANGED <<store, backend, workers, crashes, sentLog, postLog, mapVars, delivered>>

\* the while condition fails: return {"status": "timeout", ...}
ClientTimeout ==
    /\ client.pc = "loop"
    /\ client.elapsed >= MaxWaitPolls
    /\ client' = [client EXCEPT !.pc = "done", !.ret = "timeout"]
    /\ UNCHANGED <<pipeVars, mapVars>>

\* ======================================================= decoded documents
\* The values json gives a trace event: None, numbers, strings, lists and
\* dictionaries (a dictionary is a function from its keys to its values).
PyNone == [t |-> "None"]
PyInt(n) == [t |-> "int", v |-> n]
PyStr(s) == [t |-> "str", v |-> s]
PyList(s) == [t |-> "list", v |-> s]
PyDict(f) == [t |-> "dict", v |-> f]
NoItems == [k \in {} |-> PyNone]
EmptyDict == PyDict(NoItems)
EmptyList == PyList(<<>>)

IsDict(v) == v.t = "dict"

\* bool(v)
Truthy(v) ==
    CASE v.t = "None" -> FALSE
      [] v.t = "int" -> v.v # 0
      [] v.t = "str" -> v.v # ""
      [] v.t = "list" -> Len(v.v) > 0
      [] v.t = "dict" -> DOMAIN v.v # {}

\* `k in s` on two strings, for the texts the events carry: a text contains
\* itself and the words listed with it
Substring(k, s) == k = s \/ <<k, s>> \in {<<"pre", "pre-guardrail">>}

\* str.lower() on the texts the events carry
StrLower(s) == IF s = "PRE-GUARDRAIL" THEN "pre-guardrail" ELSE s

\* `k in v` raises TypeError when v is None or a number
InRaises(v) == v.t \in {"None", "int"}

\* `k in v`: key of a dictionary, substring of a string, member of a list
In(k, v) ==
    CASE v.t = "dict" -> k \in DOMAIN v.v
      [] v.t = "str" -> Substring(k, v.v)
      [] v.t = "list" -> \E n \in 1..Len(v.v) : v.v[n] = PyStr(k)
      [] OTHER -> FALSE

\* v.get(...) raises AttributeError unless v is a dictionary
GetRaises(v) == ~IsDict(v)

\* v.get(k, d)
Get(v, k, d) == IF IsDict(v) /\ k \in DOMAIN v.v THEN v.v[k] ELSE d

\* v[k] for a string k raises unless v is a dictionary that has k
ItemRaises(v, k) == ~(IsDict(v) /\ k \in DOMAIN v.v)

\* v[k]
Item(v, k) == Get(v, k, PyNone)

\* len(v) and `for x in v` raise TypeError when v is None or a number
IterRaises(v) == v.t \in {"None", "int"}

\* the elements `for x in v` goes through: those of a list; a string gives
\* its characters and a dictionary its keys, every one a non-empty string
\* (one stands for all of them)
Iter(v) ==
    CASE v.t = "list" -> v.v
      [] v.t = "str" -> IF v.v = "" THEN <<>> ELSE <<PyStr(v.v)>>
      [] v.t = "dict" -> IF DOMAIN v.v = {} THEN <<>>
                         ELSE <<PyStr(CHOOSE k \in DOMAIN v.v : TRUE)>>
      [] OTHER -> <<>>

\* v[0]: the first element of a list or string; KeyError on a dictionary
\* (json keys are strings), TypeError on None and numbers, IndexError when empty
FirstRaises(v) == v.t \in {"None", "int", "dict"} \/ ~Truthy(v)

First(v) == IF v.t = "list" /\ Len(v.v) > 0 THEN v.v[1] ELSE PyStr("c")

\* a + b raises TypeError unless both are numbers, both strings or both lists
AddRaises(a, b) == ~(a.t = b.t /\ a.t \in {"int", "str", "list"})

\* ============================================================ Trace Mapper
\* A mapped object, by its "type", its "name" and its "level" ("" when the
\* object has no level).
MappedObject(type, name, level) == [type |-> type, name |-> name, level |-> level]

\* a function of the mapper has returned objs (None: no object), or raised
Returned(objs) == [raised |-> FALSE, objects |-> objs]
Raised == [raised |-> TRUE, objects |-> <<>>]

\* statement r after statement a: an exception ends the function
Then(a, r) ==
    IF a.raised THEN a
    ELSE IF r.raised THEN Raised
    ELSE Returned(a.objects \o r.objects)

\* str(v) inside a name: the text of a string, else the type of the value
Text(v) == IF v.t = "str" THEN v.v ELSE v.t

\* a.get(k) or b.get(k): the right side is evaluated when the left is falsy
GetOrGetRaises(a, b, k) ==
    GetRaises(a) \/ (~Truthy(Get(a, k, PyNone)) /\ GetRaises(b))

_create_generation_from_model_invocation(trace_data) ==
    LET model_input == Get(trace_data, "modelInvocationInput", EmptyDict)
        model_output == Get(trace_data, "modelInvocationOutput", EmptyDict)
        raw_response == Get(model_output, "rawResponse", EmptyDict)
        content == Item(raw_response, "content")
        usage == Item(raw_response, "usage")
    IN IF GetRaises(trace_data) THEN Raised
       ELSE IF ~Truthy(model_input) /\ ~Truthy(model_output) THEN Returned(<<>>)
       ELSE IF InRaises(model_input) THEN Raised
       ELSE IF In("text", model_input) /\ ItemRaises(model_input, "text") THEN Raised
       ELSE IF /\ ~In("text", model_input)
               /\ In("inferenceConfiguration", model_input)
               /\ GetRaises(model_input) THEN Raised
       ELSE IF Truthy(model_output) /\ GetRaises(model_output) THEN Raised
       ELSE IF /\ Truthy(model_output) /\ IsDict(raw_response)
               /\ In("content", raw_response)
               /\ content.t = "list" /\ Len(content.v) > 0
               /\ GetRaises(content.v[1]) THEN Raised
       ELSE IF /\ Truthy(model_output) /\ IsDict(raw_response)
               /\ In("usage", raw_response)
               /\ \/ GetRaises(usage)
                  \/ AddRaises(Get(usage, "inputTokens", PyInt(0)),
                               Get(usage, "outputTokens", PyInt(0))) THEN Raised
       ELSE IF GetOrGetRaises(model_input, model_output, "traceId") THEN Raised
       ELSE Returned(<<MappedObject("generation", "bedrock_agent_orchestration", "")>>)

_create_rationale_span(rationale_data) ==
    IF ~Truthy(rationale_data) THEN Returned(<<>>)
    ELSE IF GetRaises(rationale_data) THEN Raised
    ELSE Returned(<<MappedObject("span", "agent_reasoning", "")>>)

_create_tool_from_action_group(action_data) ==
    LET invocation_input == Get(action_data, "invocationInput", EmptyDict)
        observation == Get(action_data, "observation", EmptyDict)
        tool_name == Get(invocation_input, "actionGroupName", PyStr("unknown_action"))
        function_name == Get(invocation_input, "function", PyStr("unknown_function"))
    IN IF ~Truthy(action_data) THEN Returned(<<>>)
       ELSE IF GetRaises(action_data) THEN Raised
       ELSE IF GetRaises(invocation_input) THEN Raised
       ELSE IF Truthy(observation) /\ InRaises(observation) THEN Raised
       ELSE IF /\ Truthy(observation)
               /\ In("actionGroupInvocationOutput", observation)
               /\ ItemRaises(observation, "actionGroupInvocationOutput") THEN Raised
       ELSE IF /\ Truthy(observation)
               /\ ~In("actionGroupInvocationOutput", observation)
               /\ In("finalResponse", observation)
               /\ ItemRaises(observation, "finalResponse") THEN Raised
       ELSE IF GetOrGetRaises(invocation_input, observation, "traceId") THEN Raised
       ELSE Returned(<<MappedObject("tool",
                           Text(tool_name) \o "." \o Text(function_name), "")>>)

\* the dictionary built for one retrieved reference
RefRaises(ref) == GetRaises(ref) \/ GetRaises(Get(ref, "content", EmptyDict))

_create_retriever_from_knowledge_base(trace_data) ==
    LET kb_input == Get(trace_data, "knowledgeBaseLookupInput", EmptyDict)
        kb_output == Get(trace_data, "knowledgeBaseLookupOutput", EmptyDict)
        refs == Item(kb_output, "retrievedReferences")
    IN IF GetRaises(trace_data) THEN Raised
       ELSE IF ~Truthy(kb_input) /\ ~Truthy(kb_output) THEN Returned(<<>>)
       ELSE IF Truthy(kb_input) /\ GetRaises(kb_input) THEN Raised
       ELSE IF Truthy(kb_output) /\ InRaises(kb_output) THEN Raised
       ELSE IF /\ Truthy(kb_output)
               /\ In("retrievedReferences", kb_output)
               /\ \/ ItemRaises(kb_output, "retrievedReferences")
                  \/ IterRaises(refs)
                  \/ \E n \in 1..Len(Iter(refs)) : RefRaises(Iter(refs)[n]) THEN Raised
       ELSE IF GetOrGetRaises(kb_input, kb_output, "knowledgeBaseId") THEN Raised
       ELSE IF GetOrGetRaises(kb_input, kb_output, "traceId") THEN Raised
       ELSE Returned(<<MappedObject("retriever", "bedrock_knowledge_base", "")>>)

_create_tool_from_code_interpreter(code_data) ==
    LET invocation_input == Get(code_data, "invocationInput", EmptyDict)
        observation == Get(code_data, "observation", EmptyDict)
        output_data == Item(observation, "codeInterpreterInvocationOutput")
    IN IF ~Truthy(code_data) THEN Returned(<<>>)
       ELSE IF GetRaises(code_data) THEN Raised
       ELSE IF GetRaises(invocation_input) THEN Raised
       ELSE IF Truthy(observation) /\ InRaises(observation) THEN Raised
       ELSE IF /\ Truthy(observation)
               /\ In("codeInterpreterInvocationOutput", observation)
               /\ \/ ItemRaises(observation, "codeInterpreterInvocationOutput")
                  \/ InRaises(output_data)
                  \/ /\ In("executionOutput", output_data)
                     /\ ItemRaises(output_data, "executionOutput")
                  \/ /\ In("files", output_data)
                     /\ ItemRaises(output_data, "files") THEN Raised
       ELSE IF GetOrGetRaises(invocation_input, observation, "traceId") THEN Raised
       ELSE Returned(<<MappedObject("tool", "code_interpreter", "")>>)

\* for action in trace_data["actionGroupInvocations"]: one tool per action
RECURSIVE ActionGroupTools(_)
ActionGroupTools(actions) ==
    IF actions = <<>> THEN Returned(<<>>)
    ELSE Then(_create_tool_from_action_group(Head(actions)),
              ActionGroupTools(Tail(actions)))

\* for code_call in trace_data["codeInterpreterInvocations"]
RECURSIVE CodeInterpreterTools(_)
CodeInterpreterTools(code_calls) ==
    IF code_calls = <<>> THEN Returned(<<>>)
    ELSE Then(_create_tool_from_code_interpreter(Head(code_calls)),
              CodeInterpreterTools(Tail(code_calls)))

_map_orchestration_trace(trace_data) ==
    LET generation ==
            IF InRaises(trace_data) THEN Raised
            ELSE IF \/ In("modelInvocationInput", trace_data)
                    \/ In("modelInvocationOutput", trace_data)
                 THEN _create_generation_from_model_invocation(trace_data)
                 ELSE Returned(<<>>)
        rationale_span ==
            IF ~In("rationale", trace_data) THEN Returned(<<>>)
            ELSE IF ItemRaises(trace_data, "rationale") THEN Raised
            ELSE _create_rationale_span(Item(trace_data, "rationale"))
        actions == Item(trace_data, "actionGroupInvocations")
        tool_calls ==
            IF ~In("actionGroupInvocations", trace_data) THEN Returned(<<>>)
            ELSE IF ItemRaises(trace_data, "actionGroupInvocations") THEN Raised
            ELSE IF IterRaises(actions) THEN Raised
            ELSE ActionGroupTools(Iter(actions))
        retriever ==
            IF \/ In("knowledgeBaseLookupInput", trace_data)
               \/ In("knowledgeBaseLookupOutput", trace_data)
            THEN _create_retriever_from_knowledge_base(trace_data)
            ELSE Returned(<<>>)
        code_calls == Item(trace_data, "codeInterpreterInvocations")
        code_tools ==
            IF ~In("codeInterpreterInvocations", trace_data) THEN Returned(<<>>)
            ELSE IF ItemRaises(trace_data, "codeInterpreterInvocations") THEN Raised
            ELSE IF IterRaises(code_calls) THEN Raised
            ELSE CodeInterpreterTools(Iter(code_calls))
    IN Then(Then(Then(Then(generation, rationale_span), tool_calls), retriever),
            code_tools)

_map_preprocessing_trace(trace_data) ==
    LET model_input == Get(trace_data, "modelInvocationInput", EmptyDict)
        model_output == Get(trace_data, "modelInvocationOutput", EmptyDict)
        parsed_response == IF Truthy(model_output)
                           THEN Get(model_output, "parsedResponse", EmptyDict)
                           ELSE EmptyDict
    IN IF ~Truthy(trace_data) THEN Returned(<<>>)
       ELSE IF GetRaises(trace_data) THEN Raised
       ELSE IF Truthy(model_output) /\ GetRaises(model_output) THEN Raised
       ELSE IF GetRaises(model_input) THEN Raised
       ELSE IF Truthy(parsed_response) /\ GetRaises(parsed_response) THEN Raised
       ELSE IF GetOrGetRaises(model_input, model_output, "traceId") THEN Raised
       ELSE Returned(<<MappedObject("span", "input_preprocessing", "")>>)

_map_postprocessing_trace(trace_data) ==
    LET model_input == Get(trace_data, "modelInvocationInput", EmptyDict)
        model_output == Get(trace_data, "modelInvocationOutput", EmptyDict)
        parsed_response == IF Truthy(model_output)
                           THEN Get(model_output, "parsedResponse", EmptyDict)
                           ELSE EmptyDict
    IN IF ~Truthy(trace_data) THEN Returned(<<>>)
       ELSE IF GetRaises(trace_data) THEN Raised
       ELSE IF Truthy(model_output) /\ GetRaises(model_output) THEN Raised
       ELSE IF GetRaises(model_input) THEN Raised
       ELSE IF Truthy(parsed_response) /\ GetRaises(parsed_response) THEN Raised
       ELSE IF GetOrGetRaises(model_input, model_output, "traceId") THEN Raised
       ELSE Returned(<<MappedObject("span", "output_postprocessing", "")>>)

\* (variant) every action but NONE counts as blocked
GuardrailBlockedUnlessNone(action) == action # PyStr("NONE")

\* action in ["BLOCKED", "INTERVENED"]
GuardrailBlocked(action) == action \in {PyStr("BLOCKED"), PyStr("INTERVENED")}

\* the guardrail object: its "output" carries the flag "blocked"
GuardrailObject(name, action) ==
    [type |-> "guardrail", name |-> name, level |-> "",
     blocked |-> GuardrailBlocked(action)]

_map_guardrail_trace(trace_data) ==
    LET action == Get(trace_data, "action", PyStr("NONE"))
        trace_id == Get(trace_data, "traceId", PyStr(""))
        outputs == Get(trace_data, "outputs", EmptyList)
    IN IF ~Truthy(trace_data) THEN Returned(<<>>)
       ELSE IF GetRaises(trace_data) THEN Raised
       ELSE IF trace_id.t # "str" THEN Raised
       ELSE IF Truthy(outputs) /\ (IterRaises(outputs) \/ FirstRaises(outputs))
            THEN Raised
       ELSE Returned(<<GuardrailObject(IF Substring("pre", StrLower(trace_id.v))
                                       THEN "input_guardrail"
                                       ELSE "output_guardrail", action)>>)

_map_failure_trace(trace_data) ==
    IF ~Truthy(trace_data) THEN Returned(<<>>)
    ELSE IF GetRaises(trace_data) THEN Raised
    ELSE Returned(<<MappedObject("event", "agent_failure", "ERROR")>>)

_create_fallback_event(trace_type) ==
    MappedObject("event", "unmapped_" \o trace_type, "WARNING")

\* self.trace_mappings, in the order of the dictionary
trace_mappings ==
    <<"orchestrationTrace", "preProcessingTrace", "postProcessingTrace",
      "guardrailTrace", "failureTrace">>

mapper_func(trace_type, trace_data) ==
    CASE trace_type = "orchestrationTrace" -> _map_orchestration_trace(trace_data)
      [] trace_type = "preProcessingTrace" -> _map_preprocessing_trace(trace_data)
      [] trace_type = "postProcessingTrace" -> _map_postprocessing_trace(trace_data)
      [] trace_type = "guardrailTrace" -> _map_guardrail_trace(trace_data)
      [] trace_type = "failureTrace" -> _map_failure_trace(trace_data)

\* (variant) a turn of the loop that gives a fallback event for a variant
\* key that is not in the content
MapTraceTypeElseFallback(trace_content, trace_type) ==
    IF InRaises(trace_content) THEN Raised
    ELSE IF ~In(trace_type, trace_content)
         THEN Returned(<<_create_fallback_event(trace_type)>>)
    ELSE IF ItemRaises(trace_content, trace_type) THEN Raised
    ELSE LET mapped_objects == mapper_func(trace_type, Item(trace_content, trace_type))
         IN IF mapped_objects.raised
            THEN Returned(<<_create_fallback_event(trace_type)>>)
            ELSE mapped_objects

\* one turn of the loop of map_bedrock_trace. `trace_type in trace_content`
\* is outside the try; trace_content[trace_type] is evaluated in the try and
\* once more in the handler, where nothing catches what it raises
MapTraceType(trace_content, trace_type) ==
    IF InRaises(trace_content) THEN Raised
    ELSE IF ~In(trace_type, trace_content) THEN Returned(<<>>)
    ELSE IF ItemRaises(trace_content, trace_type) THEN Raised
    ELSE LET mapped_objects == mapper_func(trace_type, Item(trace_content, trace_type))
         IN IF mapped_objects.raised
            THEN Returned(<<_create_fallback_event(trace_type)>>)
            ELSE mapped_objects

RECURSIVE MapFrom(_, _)
MapFrom(trace_content, n) ==
    IF n > Len(trace_mappings) THEN Returned(<<>>)
    ELSE Then(MapTraceType(trace_content, trace_mappings[n]),
              MapFrom(trace_content, n + 1))

map_bedrock_trace(bedrock_trace) ==
    MapFrom(Get(bedrock_trace, "trace", EmptyDict), 1)

\* ======================================================= Hierarchy Builder
\* A _process_..._hierarchically function is the sequence of its steps: an
\* expression that raises, an observation started on the Langfuse client
\* (it stays when the function raises later), an append to
\* processed_objects (counts[...] += 1 goes with every append, so counts is
\* the tally of processed_objects).
Check(bad) == IF bad THEN <<[op |-> "raise", name |-> "", as_type |-> ""]>> ELSE <<>>

\* with self.langfuse.start_as_current_observation(name=..., as_type=...)
Attach(name, as_type) == <<[op |-> "start", name |-> name, as_type |-> as_type]>>

\* processed_objects.append(kind); counts[kind + "s"] += 1
Processed(kind) == <<[op |-> "append", name |-> "", as_type |-> kind]>>

\* the steps run up to the first one that raises: whether the function has
\* raised, its processed_objects and the observations it has started
Run(steps) ==
    LET raising == {n \in 1..Len(steps) : steps[n].op = "raise"}
        stop == IF raising = {} THEN Len(steps) + 1
                ELSE CHOOSE n \in raising : \A m \in raising : n <= m
        done == SubSeq(steps, 1, stop - 1)
        appended == SelectSeq(done, LAMBDA s : s.op = "append")
        started == SelectSeq(done, LAMBDA s : s.op = "start")
    IN [raised |-> raising # {},
        objects |-> [n \in 1..Len(appended) |-> appended[n].as_type],
        attached |-> [n \in 1..Len(started) |->
                         [name |-> started[n].name, as_type |-> started[n].as_type]]]

_extract_model_id_raises(trace_data) ==
    /\ In("modelInvocationOutput", trace_data)
    /\ GetRaises(Item(trace_data, "modelInvocationOutput"))

_extract_output_text_raises(model_output) ==
    LET raw_response == Get(model_output, "rawResponse", EmptyDict)
        content == Item(raw_response, "content")
    IN \/ GetRaises(model_output)
       \/ /\ IsDict(raw_response) /\ In("content", raw_response)
          /\ content.t = "list" /\ Len(content.v) > 0
          /\ GetRaises(content.v[1])

_extract_usage_data_raises(model_output) ==
    LET raw_response == Get(model_output, "rawResponse", EmptyDict)
        usage == Item(raw_response, "usage")
    IN \/ GetRaises(model_output)
       \/ /\ IsDict(raw_response) /\ In("usage", raw_response)
          /\ \/ GetRaises(usage)
             \/ AddRaises(Get(usage, "inputTokens", PyInt(0)),
                          Get(usage, "outputTokens", PyInt(0)))

\* L3 "llm" generation with its L4 span, as the orchestration, preprocessing
\* and postprocessing functions write it; filtered: the L4 metadata reads
\* parsedResponse.isGuardrailFiltered (orchestration only)
LlmInvocation(trace_data, l4_name, filtered) ==
    LET model_output == Item(trace_data, "modelInvocationOutput")
    IN Check(\/ _extract_model_id_raises(trace_data)
             \/ GetRaises(Get(trace_data, "modelInvocationInput", EmptyDict)))
       \o Attach("llm", "generation")
       \o (IF In("modelInvocationOutput", trace_data)
           THEN Check(\/ _extract_output_text_raises(model_output)
                      \/ _extract_usage_data_raises(model_output)
                      \/ /\ filtered
                         /\ GetRaises(Get(model_output, "parsedResponse", EmptyDict)))
                \o Attach(l4_name, "span")
                \o Processed("span")
           ELSE <<>>)
       \o Processed("generation")

\* L3 action group tool with its L4 "action_result" span
ActionGroup(action_group_input, action_group_output) ==
    Check(Truthy(action_group_input) /\ GetRaises(action_group_input))
    \o Attach(IF Truthy(action_group_input)
              THEN Text(Get(action_group_input, "actionGroupName", PyStr("unknown")))
              ELSE "action_group", "tool")
    \o (IF Truthy(action_group_output)
        THEN Attach("action_result", "span") \o Processed("span")
        ELSE <<>>)
    \o Processed("tool")

\* L3 retriever with its L4 "knowledgeBaseLookupOutput" span
KnowledgeBaseLookup(kb_input, kb_output) ==
    Check(Truthy(kb_input) /\ GetRaises(kb_input))
    \o Attach("knowledgeBaseLookup", "retriever")
    \o (IF Truthy(kb_output)
        THEN Check(\/ GetRaises(kb_output)
                   \/ IterRaises(Get(kb_output, "retrievedReferences", EmptyList)))
             \o Attach("knowledgeBaseLookupOutput", "span")
             \o Processed("span")
        ELSE <<>>)
    \o Processed("retriever")

\* for code_call in orch_trace["codeInterpreterInvocations"]
RECURSIVE CodeInterpreter(_)
CodeInterpreter(code_calls) ==
    IF code_calls = <<>> THEN <<>>
    ELSE LET code_call == Head(code_calls)
         IN Check(\/ GetRaises(code_call)
                  \/ GetRaises(Get(code_call, "invocationInput", EmptyDict)))
            \o Attach("CodeInterpreter", "span")
            \o (IF In("observation", code_call)
                THEN Check(GetRaises(Item(code_call, "observation")))
                     \o Attach("code_interpreter_result", "span")
                     \o Processed("span")
                ELSE <<>>)
            \o Processed("tool")
            \o CodeInterpreter(Tail(code_calls))

_process_orchestration_trace_hierarchically(orch_trace) ==
    LET invocationInput == Get(orch_trace, "invocationInput", EmptyDict)
        observation == Get(orch_trace, "observation", EmptyDict)
        action_group_input == Get(invocationInput, "actionGroupInvocationInput", PyNone)
        action_group_output == Get(observation, "actionGroupInvocationOutput", PyNone)
        kb_input == Get(invocationInput, "knowledgeBaseLookupInput", PyNone)
        kb_output == Get(observation, "knowledgeBaseLookupOutput", PyNone)
        code_calls == Item(orch_trace, "codeInterpreterInvocations")
        final_response == Get(observation, "finalResponse", PyNone)
    IN Check(\/ GetRaises(orch_trace)
             \/ GetRaises(Get(orch_trace, "modelInvocationInput", EmptyDict)))
       \o Attach("orchestrationTrace", "span")
       \o (IF \/ In("modelInvocationInput", orch_trace)
              \/ In("modelInvocationOutput", orch_trace)
           THEN LlmInvocation(orch_trace, "OrchestrationModelInvocationOutput", TRUE)
           ELSE <<>>)
       \o (IF In("rationale", orch_trace)
           THEN Check(GetRaises(Item(orch_trace, "rationale")))
                \o Attach("rationale", "span")
                \o Processed("span")
           ELSE <<>>)
       \o Check(GetRaises(invocationInput) \/ GetRaises(observation))
       \o (IF Truthy(action_group_input) \/ Truthy(action_group_output)
           THEN ActionGroup(action_group_input, action_group_output)
           ELSE <<>>)
       \o (IF Truthy(kb_input) \/ Truthy(kb_output)
           THEN KnowledgeBaseLookup(kb_input, kb_output)
           ELSE <<>>)
       \o (IF In("codeInterpreterInvocations", orch_trace)
           THEN Check(IterRaises(code_calls)) \o CodeInterpreter(Iter(code_calls))
           ELSE <<>>)
       \o (IF Truthy(final_response)
           THEN Check(GetRaises(final_response))
                \o Attach("finalResponse", "span")
                \o Processed("span")
           ELSE <<>>)

_process_preprocessing_trace_hierarchically(prep_trace) ==
    Check(\/ GetRaises(prep_trace)
          \/ GetRaises(Get(prep_trace, "modelInvocationInput", EmptyDict)))
    \o Attach("pre_processing", "span")
    \o (IF \/ In("modelInvocationInput", prep_trace)
           \/ In("modelInvocationOutput", prep_trace)
        THEN LlmInvocation(prep_trace, "PreProcessingModelInvocationOutput", FALSE)
        ELSE <<>>)

_process_postprocessing_trace_hierarchically(post_trace) ==
    Check(\/ GetRaises(post_trace)
          \/ GetRaises(Get(post_trace, "modelInvocationInput", EmptyDict)))
    \o Attach("postProcessingTrace", "span")
    \o (IF \/ In("modelInvocationInput", post_trace)
           \/ In("modelInvocationOutput", post_trace)
        THEN LlmInvocation(post_trace, "PostProcessingModelInvocationOutput", FALSE)
        ELSE <<>>)

_process_guardrail_trace_hierarchically(guard_trace) ==
    LET trace_id == Get(guard_trace, "traceId", PyStr(""))
    IN Check(GetRaises(guard_trace) \/ InRaises(trace_id))
       \o Attach(IF In("pre", trace_id) THEN "guardrail_pre" ELSE "guardrail_post",
                 "guardrail")
       \o Processed("guardrail")

\* the metadata of the guardrail observation
guardrail_metadata(guard_trace) ==
    LET action == Get(guard_trace, "action", PyStr("NONE"))
    IN [guardrail_action |-> action, blocked |-> GuardrailBlocked(action)]

_process_failure_trace_hierarchically(failure_trace) ==
    Check(GetRaises(failure_trace))
    \o Attach("agent_failure", "span")
    \o Processed("event")

\* the if / elif chain of _process_trace_hierarchically: the first variant
\* key found in trace_content decides, the others are not looked at
ProcessVariant(trace_content) ==
    LET found == {n \in 1..Len(trace_mappings) : In(trace_mappings[n], trace_content)}
        trace_type == trace_mappings[CHOOSE n \in found : \A m \in found : n <= m]
        variant == Item(trace_content, trace_type)
    IN IF InRaises(trace_content) THEN Check(TRUE)
       ELSE IF found = {} THEN <<>>
       ELSE IF ItemRaises(trace_content, trace_type) THEN Check(TRUE)
       ELSE CASE trace_type = "orchestrationTrace" ->
                   _process_orchestration_trace_hierarchically(variant)
              [] trace_type = "preProcessingTrace" ->
                   _process_preprocessing_trace_hierarchically(variant)
              [] trace_type = "postProcessingTrace" ->
                   _process_postprocessing_trace_hierarchically(variant)
              [] trace_type = "guardrailTrace" ->
                   _process_guardrail_trace_hierarchically(variant)
              [] trace_type = "failureTrace" ->
                   _process_failure_trace_hierarchically(variant)

\* a builder that gives an event without any variant key a fallback event
ProcessTraceElseFallback(bedrock_trace) ==
    LET trace_content == Get(bedrock_trace, "trace", EmptyDict)
    IN IF /\ ~InRaises(trace_content)
          /\ \A n \in 1..Len(trace_mappings) : ~In(trace_mappings[n], trace_content)
       THEN Run(Attach("unmapped", "span") \o Processed("event"))
       ELSE Run(ProcessVariant(trace_content))

_process_trace_hierarchically(bedrock_trace) ==
    Run(ProcessVariant(Get(bedrock_trace, "trace", EmptyDict)))

\* (variant) counts that leave out the objects of kind event
TallyWithoutEvents(objects) ==
    LET N(kind) == Cardinality({n \in 1..Len(objects) : objects[n] = kind})
    IN [generations |-> N("generation"), tools |-> N("tool"),
        retrievers |-> N("retriever"), spans |-> N("span"),
        guardrails |-> N("guardrail"), events |-> 0]

\* result.get("generations", 0) ...: the counts of one result
Tally(objects) ==
    LET N(kind) == Cardinality({n \in 1..Len(objects) : objects[n] = kind})
    IN [generations |-> N("generation"), tools |-> N("tool"),
        retrievers |-> N("retriever"), spans |-> N("span"),
        guardrails |-> N("guardrail"), events |-> N("event")]

\* total_generations += ..., total_events += ...
AddCounts(a, b) == [k \in DOMAIN a |-> a[k] + b[k]]

\* (variant) a turn that puts what it makes before what earlier turns made
LoopTurnPrepending(st, bedrock_trace, i) ==
    LET result == _process_trace_hierarchically(bedrock_trace)
    IN IF ~result.raised
       THEN [processed_objects |-> result.objects \o st.processed_objects,
             totals |-> AddCounts(st.totals, Tally(result.objects)),
             attached |-> result.attached \o st.attached]
       ELSE [processed_objects |-> st.processed_objects,
             totals |-> st.totals,
             attached |-> <<[name |-> "processing_error_" \o ToString(i),
                             as_type |-> "span"]>> \o result.attached \o st.attached]

\* (variant) a turn whose handler attaches nothing for an event that raised
LoopTurnWithoutFallback(st, bedrock_trace, i) ==
    LET result == _process_trace_hierarchically(bedrock_trace)
    IN IF ~result.raised
       THEN [processed_objects |-> st.processed_objects \o result.objects,
             totals |-> AddCounts(st.totals, Tally(result.objects)),
             attached |-> st.attached \o result.attached]
       ELSE [processed_objects |-> st.processed_objects,
             totals |-> st.totals,
             attached |-> st.attached \o result.attached]

\* One turn of `for i, bedrock_trace in enumerate(request.traces)`, on the
\* loop's variables st: the try extends processed_objects and the totals;
\* the handler starts the span processing_error_<i> and counts nothing.
LoopTurn(st, bedrock_trace, i) ==
    LET result == _process_trace_hierarchically(bedrock_trace)
    IN IF ~result.raised
       THEN [processed_objects |-> st.processed_objects \o result.objects,
             totals |-> AddCounts(st.totals, Tally(result.objects)),
             attached |-> st.attached \o result.attached]
       ELSE [processed_objects |-> st.processed_objects,
             totals |-> st.totals,
             attached |-> st.attached \o result.attached \o
                            <<[name |-> "processing_error_" \o ToString(i),
                               as_type |-> "span"]>>]

\* the whole loop on a batch, from the turn of index i on
RECURSIVE LoopFrom(_, _, _)
LoopFrom(st, batch, i) ==
    IF i >= Len(batch) THEN st
    ELSE LoopFrom(LoopTurn(st, batch[i + 1], i), batch, i + 1)

\* ================================== TraceRegistrar (the worker's registrar)
\* _add_orchestration_attributes raises
_add_orchestration_attributes_raises(orchestration_trace) ==
    LET model_input == Item(orchestration_trace, "modelInvocationInput")
        model_output == Item(orchestration_trace, "modelInvocationOutput")
        raw_response == Item(model_output, "rawResponse")
        usage == Item(raw_response, "usage")
    IN \/ InRaises(orchestration_trace)
       \/ /\ In("modelInvocationInput", orchestration_trace)
          /\ \/ ItemRaises(orchestration_trace, "modelInvocationInput")
             \/ GetRaises(model_input)
       \/ /\ In("modelInvocationOutput", orchestration_trace)
          /\ \/ ItemRaises(orchestration_trace, "modelInvocationOutput")
             \/ InRaises(model_output)
             \/ /\ In("rawResponse", model_output)
                /\ \/ ItemRaises(model_output, "rawResponse")
                   \/ InRaises(raw_response)
                   \/ In("content", raw_response) /\ ItemRaises(raw_response, "content")
                   \/ /\ In("usage", raw_response)
                      /\ \/ ItemRaises(raw_response, "usage")
                         \/ GetRaises(usage)
                         \/ AddRaises(Get(usage, "inputTokens", PyInt(0)),
                                      Get(usage, "outputTokens", PyInt(0)))

\* _add_preprocessing_attributes and _add_postprocessing_attributes raise
_add_processing_attributes_raises(processing_trace) ==
    LET model_output == Item(processing_trace, "modelInvocationOutput")
        parsed == Item(model_output, "parsedResponse")
    IN \/ InRaises(processing_trace)
       \/ /\ In("modelInvocationOutput", processing_trace)
          /\ \/ ItemRaises(processing_trace, "modelInvocationOutput")
             \/ InRaises(model_output)
             \/ /\ In("parsedResponse", model_output)
                /\ \/ ItemRaises(model_output, "parsedResponse")
                   \/ GetRaises(parsed)

\* _add_guardrail_attributes and _add_failure_attributes raise
_add_guardrail_attributes_raises(guardrail_trace) == GetRaises(guardrail_trace)

_add_failure_attributes_raises(failure_trace) == GetRaises(failure_trace)

\* the span names of the if / elif chain of _process_single_trace
span_names ==
    [orchestrationTrace |-> "orchestrationTrace", preProcessingTrace |-> "pre_processing",
     postProcessingTrace |-> "postProcessingTrace", guardrailTrace |-> "guardrail_trace",
     failureTrace |-> "failure_trace"]

\* TraceRegistrar._process_single_trace: it raises, or it starts one span
\* under the root span
_process_single_trace(trace_data) ==
    LET trace_content == Get(trace_data, "trace", EmptyDict)
        found == {n \in 1..Len(trace_mappings) : In(trace_mappings[n], trace_content)}
        trace_type == trace_mappings[CHOOSE n \in found : \A m \in found : n <= m]
        variant == Item(trace_content, trace_type)
    IN IF InRaises(trace_content) THEN [raised |-> TRUE, span_name |-> ""]
       ELSE IF found = {} THEN [raised |-> FALSE, span_name |-> "unknown_trace"]
       ELSE IF \/ ItemRaises(trace_content, trace_type)
               \/ CASE trace_type = "orchestrationTrace" ->
                         _add_orchestration_attributes_raises(variant)
                    [] trace_type \in {"preProcessingTrace", "postProcessingTrace"} ->
                         _add_processing_attributes_raises(variant)
                    [] trace_type = "guardrailTrace" ->
                         _add_guardrail_attributes_raises(variant)
                    [] trace_type = "failureTrace" ->
                         _add_failure_attributes_raises(variant)
            THEN [raised |-> TRUE, span_name |-> ""]
       ELSE [raised |-> FALSE, span_name |-> span_names[trace_type]]

\* a call on the tracer, a span or the tracer provider
Call(op, name) == [op |-> op, name |-> name]

\* for i, trace_data in enumerate(request.traces): the calls of the turns
\* from index i on; an event that raises is recorded on the root span
RECURSIVE TraceRegistrarLoop(_, _)
TraceRegistrarLoop(batch, i) ==
    IF i >= Len(batch) THEN <<>>
    ELSE LET r == _process_single_trace(batch[i + 1])
         IN (IF r.raised THEN <<Call("record_exception", ToString(i))>>
             ELSE <<Call("start_span", r.span_name)>>)
            \o TraceRegistrarLoop(batch, i + 1)

\* the calls of TraceRegistrar.register_traces, in order
TraceRegistrarCalls(batch) ==
    <<Call("start_span", "root")>>
    \o TraceRegistrarLoop(batch, 0)
    \o <<Call("set_status", "root"), Call("force_flush", "")>>

\* the dictionary TraceRegistrar.register_traces returns: its keys; "flushed"
\* is what force_flush(timeout_millis=10000) returned
TraceRegistrarResult(batch, success) ==
    [status |-> "success",
     processed_traces |->
        Len(SelectSeq(TraceRegistrarLoop(batch, 0), LAMBDA c : c.op = "start_span")),
     flushed |-> success,
     keys |-> {"status", "trace_id", "processed_traces", "flushed", "message"}]

\* process_traces, lines 61-65: result.update({...})
process_traces_result(result) ==
    [result EXCEPT !.keys = @ \cup {"job_id", "processing_time_seconds", "completed_at"}]

\* TraceRegistrar.register_traces on the request: the loop, the summary on
\* the root span, force_flush and the returned dictionary
TraceRegistrarRegister(success) ==
    /\ exported = NoExport
    /\ exported' = [calls |-> TraceRegistrarCalls(traces),
                    result |-> TraceRegistrarResult(traces, success)]
    /\ UNCHANGED <<traces, trace_index, processed_objects, totals, attached,
                   mapOut, summary, phase, earlier, pipeVars, client>>

\* ---------------------------------------------------- registrar actions
\* the loop of LangfuseTraceRegistrar.register_traces takes the next event
RegisterTrace ==
    /\ phase = "loop"
    /\ trace_index < Len(traces)
    /\ LET st == LoopTurn([processed_objects |-> processed_objects,
                           totals |-> totals, attached |-> attached],
                          traces[trace_index + 1], trace_index)
       IN /\ processed_objects' = st.processed_objects
          /\ totals' = st.totals
          /\ attached' = st.attached
    /\ trace_index' = trace_index + 1
    /\ UNCHANGED <<traces, mapOut, summary, phase, earlier, exported, pipeVars, client>>

\* the loop is over: root_span.update(output=..., metadata=...) writes the
\* processing summary on the root
RegisterSummary ==
    /\ phase = "loop"
    /\ trace_index = Len(traces)
    /\ phase' = "summarized"
    /\ UNCHANGED <<traces, trace_index, processed_objects, totals, attached,
                   mapOut, summary, earlier, exported, pipeVars, client>>

\* self.langfuse.flush(): it returns, or it raises and the handler of
\* register_traces raises "Failed to register traces in Langfuse"
RegisterFlush(returns) ==
    /\ phase = "summarized"
    /\ IF returns
       THEN phase' = "flushed" /\ UNCHANGED summary
       ELSE phase' = "raised" /\ summary' = [NoSummary EXCEPT !.status = "error"]
    /\ UNCHANGED <<traces, trace_index, processed_objects, totals, attached,
                   mapOut, earlier, exported, pipeVars, client>>

\* (variant) the dictionary is returned once the summary is written,
\* flushed or not
RegisterReturnUnflushed ==
    /\ phase \in {"summarized", "flushed"}
    /\ phase' = "returned"
    /\ summary' = [status |-> "success",
                   processed_traces |-> Len(traces),
                   created_objects |-> Len(processed_objects),
                   object_counts |-> totals]
    /\ UNCHANGED <<traces, trace_index, processed_objects, totals, attached,
                   mapOut, earlier, exported, pipeVars, client>>

\* return {"status": "success", ...}
RegisterReturn ==
    /\ phase = "flushed"
    /\ phase' = "returned"
    /\ summary' = [status |-> "success",
                   processed_traces |-> Len(traces),
                   created_objects |-> Len(processed_objects),
                   object_counts |-> totals]
    /\ UNCHANGED <<traces, trace_index, processed_objects, totals, attached,
                   mapOut, earlier, exported, pipeVars, client>>

\* (variant) the totals of the request before are carried into the next one
RegisterAgainKeepingTotals(batch) ==
    /\ phase \in {"returned", "raised"}
    /\ earlier' = [status |-> summary.status, traces |-> traces,
                   created_objects |-> summary.created_objects,
                   object_counts |-> summary.object_counts]
    /\ traces' = batch
    /\ trace_index' = 0
    /\ processed_objects' = <<>>
    /\ attached' = <<>>
    /\ mapOut' = <<>>
    /\ summary' = NoSummary
    /\ phase' = "loop"
    /\ UNCHANGED <<totals, exported, pipeVars, client>>

\* register_traces is called again on the same registrar, lines 59-72: its
\* lists and totals are locals, a new root span is opened
RegisterAgain(batch) ==
    /\ phase \in {"returned", "raised"}
    /\ earlier' = [status |-> summary.status, traces |-> traces,
                   created_objects |-> summary.created_objects,
                   object_counts |-> summary.object_counts]
    /\ traces' = batch
    /\ trace_index' = 0
    /\ processed_objects' = <<>>
    /\ totals' = NoCounts
    /\ attached' = <<>>
    /\ mapOut' = <<>>
    /\ summary' = NoSummary
    /\ phase' = "loop"
    /\ UNCHANGED <<exported, pipeVars, client>>

\* the readings of the clock, datetime.now(timezone.utc)
Times == 1..MaxClock

\* _create_fallback_event puts the time of the call into the metadata of
\* the fallback event ("event_time": datetime.now(...).isoformat()): the
\* objects of a call made at the time now
AtTime(result, now) ==
    [raised |-> result.raised,
     objects |-> [n \in 1..Len(result.objects) |->
                    IF result.objects[n].level = "WARNING"
                    THEN [type |-> result.objects[n].type,
                          name |-> result.objects[n].name,
                          level |-> result.objects[n].level,
                          event_time |-> now]
                    ELSE result.objects[n]]]

\* map_bedrock_trace is called on the next event of the batch, at the time
\* now
MapEvent(now) ==
    /\ Len(mapOut) < Len(traces)
    /\ mapOut' = Append(mapOut, AtTime(map_bedrock_trace(traces[Len(mapOut) + 1]), now))
    /\ UNCHANGED <<traces, trace_index, processed_objects, totals, attached,
                   summary, phase, earlier, exported, pipeVars, client>>

\* --------------------------------------------------- the events submitted
\* a raw trace event with the given "trace" content
Event(trace_content) == PyDict([trace |-> trace_content])

GoodFailure == PyDict([failureReason |-> PyStr("boom")])
GoodPreProcessing == PyDict([modelInvocationInput |-> PyDict([text |-> PyStr("hi")])])
GoodAction ==
    PyDict([invocationInput |-> PyDict([actionGroupName |-> PyStr("weather"),
                                        function |-> PyStr("get")])])

\* the orchestration event of test_corrected_implementation: a model call,
\* one action-group invocation, a knowledge-base lookup with one reference
SampleOrchestration ==
    Event(PyDict([orchestrationTrace |-> PyDict(
      [modelInvocationInput |-> PyDict([text |-> PyStr("q")]),
       modelInvocationOutput |->
          PyDict([rawResponse |->
                    PyDict([content |-> PyList(<<PyDict([text |-> PyStr("a")])>>),
                            usage |-> PyDict([inputTokens |-> PyInt(25),
                                              outputTokens |-> PyInt(18)])])]),
       actionGroupInvocations |-> PyList(<<GoodAction>>),
       knowledgeBaseLookupInput |-> PyDict([text |-> PyStr("x")]),
       knowledgeBaseLookupOutput |->
          PyDict([retrievedReferences |->
                    PyList(<<PyDict([content |-> PyDict([text |-> PyStr("t")])])>>)])])]))

\* request.traces is List[Dict[str, Any]]: every event is a dictionary, what
\* it holds is whatever the caller sent
TraceEvents ==
    { EmptyDict,
      SampleOrchestration,
      Event(EmptyDict),
      Event(PyDict([unknownTrace |-> EmptyDict])),
      Event(PyNone),
      Event(PyStr("plain text")),
      Event(PyStr("orchestrationTrace")),
      Event(PyDict([failureTrace |-> GoodFailure])),
      Event(PyDict([guardrailTrace |->
                      PyDict([action |-> PyStr("BLOCKED"),
                              traceId |-> PyStr("PRE-GUARDRAIL")])])),
      Event(PyDict([guardrailTrace |-> PyDict([traceId |-> PyNone])])),
      Event(PyDict([preProcessingTrace |-> GoodPreProcessing])),
      Event(PyDict([orchestrationTrace |->
                      PyDict([rationale |-> PyDict([text |-> PyStr("think")])])])),
      Event(PyDict([orchestrationTrace |-> PyNone])),
      Event(PyDict([preProcessingTrace |-> GoodPreProcessing,
                    failureTrace |-> GoodFailure])),
      Event(PyDict([orchestrationTrace |->
                      PyDict([actionGroupInvocations |->
                                PyList(<<GoodAction, PyStr("bad")>>)])])) }

\* guardrail events: the one of test_corrected_implementation (action NONE),
\* no action, the actions BLOCKED and INTERVENED, an action in lower case,
\* and guardrail data without any field
GuardrailEvents ==
    { Event(PyDict([guardrailTrace |->
                      PyDict([action |-> PyStr("NONE"), traceId |-> PyStr("guard-202"),
                              outputs |-> EmptyList])])),
      Event(PyDict([guardrailTrace |-> PyDict([traceId |-> PyStr("guard-202")])])),
      Event(PyDict([guardrailTrace |->
                      PyDict([action |-> PyStr("BLOCKED"),
                              traceId |-> PyStr("PRE-GUARDRAIL")])])),
      Event(PyDict([guardrailTrace |-> PyDict([action |-> PyStr("INTERVENED")])])),
      Event(PyDict([guardrailTrace |->
                      PyDict([action |-> PyStr("blocked"),
                              traceId |-> PyStr("guard-202")])])),
      Event(PyDict([guardrailTrace |-> EmptyDict])) }

\* the batches of at most MaxTraces events
Batches == UNION {[1..n -> TraceEvents] : n \in 0..MaxTraces}

MapInit == PipeInit /\ \E batch \in Batches : RegistrarInit(batch)

MapNext ==
    \/ \E now \in Times : MapEvent(now)
    \/ RegisterTrace
    \/ RegisterSummary
    \/ \E returns \in BOOLEAN : RegisterFlush(returns)
    \/ RegisterReturn

\* the mapper and the registrar at work on one request
MapSpec == MapInit /\ [][MapNext]_vars

\* the mapper and the registrar at work on a request of guardrail events
GuardrailInit ==
    /\ PipeInit
    /\ \E batch \in UNION {[1..n -> GuardrailEvents] : n \in 0..MaxTraces} :
          RegistrarInit(batch)

GuardrailSpec == GuardrailInit /\ [][MapNext]_vars

\* the worker's registrar at work on one request
TraceRegistrarNext == \E success \in BOOLEAN : TraceRegistrarRegister(success)

TraceRegistrarSpec == MapInit /\ [][TraceRegistrarNext]_vars

\* both registrars at work on the same request
RegistrarsNext ==
    \/ RegisterTrace
    \/ RegisterSummary
    \/ \E returns \in BOOLEAN : RegisterFlush(returns)
    \/ RegisterReturn
    \/ \E success \in BOOLEAN : TraceRegistrarRegister(success)

RegistrarsSpec == MapInit /\ [][RegistrarsNext]_vars

\* the requests that follow a request: the same one again, or a request
\* made of one of its events
Resubmissions == {traces} \cup {<<traces[n]>> : n \in 1..Len(traces)}

ResubmitNext ==
    \/ RegisterTrace
    \/ RegisterSummary
    \/ \E returns \in BOOLEAN : RegisterFlush(returns)
    \/ RegisterReturn
    \/ \E batch \in Resubmissions : RegisterAgain(batch)

\* one registrar given request after request
ResubmitSpec == MapInit /\ [][ResubmitNext]_vars

\* ------------------------------------------------------------------ Next
\* the task messages there can be
Msgs ==
    [id : Ids, retries : {0}, countdown : {0}]
        \cup [id : Ids, retries : 1..MaxRetries, countdown : {RetryCountdown}]

PipeNext ==
    \/ \E o \in {"ok", "broker_down", "store_down"} : register_traces(o)
    \/ \E m \in Msgs : WorkerTake(m)
    \/ \E m \in Msgs : ProcessTracesBegin(m)
    \/ \E m \in Msgs : ProcessTracesReturn(m)
    \/ \E m \in Msgs : ProcessTracesExcept(m)
    \/ \E m \in Msgs : ProcessTracesRetry(m)
    \/ \E m \in Msgs : WorkerAck(m)
    \/ \E j \in Ids : ResultExpiry(j)
    \/ \E j \in Ids : RecordExpiry(j)

\* the pipeline with workers that can die while holding a message
CrashNext ==
    \/ PipeNext
    \/ \E e \in BagToSet(workers) : WorkerCrash(e)

ClientNext ==
    \/ \E j \in Ids : ClientStart(j)
    \/ ClientPollStatus
    \/ ClientFetchResult
    \/ ClientTimeout

\* the pipeline with every worker staying up, observed by a polling client
ClientPipeNext ==
    \/ \E o \in {"ok", "broker_down", "store_down"} : register_traces(o)
    \/ \E m \in Msgs : WorkerTake(m)
    \/ \E m \in Msgs : ProcessTracesBegin(m)
    \/ \E m \in Msgs : ProcessTracesReturn(m)
    \/ \E m \in Msgs : ProcessTracesExcept(m)
    \/ \E m \in Msgs : ProcessTracesRetry(m)
    \/ \E m \in Msgs : WorkerAck(m)
    \/ ClientNext

Spec == Init /\ [][PipeNext]_vars

CrashSpec == Init /\ [][CrashNext]_vars

ClientSpec == Init /\ [][ClientPipeNext]_vars

\* the workers keep taking messages and keep running the tasks they hold
WorkerNext ==
    \E m \in Msgs :
        \/ WorkerTake(m)
        \/ ProcessTracesBegin(m)
        \/ ProcessTracesReturn(m)
        \/ ProcessTracesExcept(m)
        \/ ProcessTracesRetry(m)
        \/ WorkerAck(m)

WorkerFairness == WF_vars(WorkerNext)

FairClientSpec == ClientSpec /\ WorkerFairness

\* the pipeline with workers that die while they process a job (before the
\* outcome of the attempt is recorded), without the expiries: accepted
\* submissions, worker steps under weak fairness, worker deaths
DeliveryNext ==
    \/ register_traces("ok")
    \/ WorkerNext
    \/ \E e \in BagToSet(workers) : e.pc # "ack" /\ WorkerCrash(e)

DeliverySpec == Init /\ [][DeliveryNext]_vars /\ WorkerFairness

\* =============================================================== claims
Enqueued(j) == \E i \in 1..Len(sentLog) : sentLog[i] = j

HasRecord(j) == store[j] # NoRecord

\* the task has reached SUCCESS or FAILURE and nothing of it is left to run
Finished(j) == backend[j].state \in {"SUCCESS", "FAILURE"} /\ AtRest(j)

TerminalStatus == {"completed", "failed"}

\* C1: once GET /job-status has reported completed or failed for a job id,
\* every later GET /job-status for that id reports the same status while
\* the job record exists.  GET /job-status is a function of the state and
\* may be called in every state, so this is: no step changes a reported
\* terminal status.
C1_JobStatusMonotonic ==
    [][\A j \in Ids :
          (/\ get_job_status(j).code = 200
           /\ get_job_status(j).status \in TerminalStatus
           /\ HasRecord(j)')
          => (get_job_status(j)').status = get_job_status(j).status]_vars

\* C2: an exception in process_traces is retried up to 3 times with a
\* 60-second countdown: attempts are numbered 0..3, so the body runs at
\* most 4 times per job, the task is in state FAILURE only when its last
\* allowed attempt has failed, and the error recorded then is the error of
\* that attempt.
C2_RetryThenFail ==
    \A j \in Ids :
       /\ \A m \in BagToSet(queue) :
             /\ m.retries <= MaxRetries
             /\ m.retries > 0 => m.countdown = RetryCountdown
       /\ backend[j].state = "FAILURE" =>
             /\ \A m \in BagToSet(queue) : m.id # j
             /\ \A e \in BagToSet(workers) :
                   e.msg.id = j => e.msg.retries = MaxRetries
       /\ (backend[j].state = "FAILURE" /\ AtRest(j)) =>
             backend[j].info = StrOfExc(ExcOfAttempt(MaxRetries))

\* C3: every job enqueued by POST /register-traces eventually reaches
\* completed or failed when the workers keep running, whatever the client
\* does (stops polling, times out): again and again every job enqueued so
\* far is finished.
C3_EveryJobTerminates == []<>(\A j \in Ids : Enqueued(j) => Finished(j))

\* the client has given up with timeout and the job has still finished
C3_Witness ==
    /\ client.pc = "done"
    /\ client.ret = "timeout"
    /\ Enqueued(client.job)
    /\ Finished(client.job)

\* C4: GET /job-result answers 202 in every state in which the task has
\* not reached a terminal state (queued, started, processing, waiting for
\* a retry), 200 exactly when it is completed and 5xx exactly when it is
\* failed.
C4_JobResultContract ==
    \A j \in Ids :
       Enqueued(j) =>
          LET st == AsyncResultState(j)
              r == get_job_result(j)
          IN /\ st \in {"PENDING", "STARTED", "PROCESSING", "RETRY"} => r.code = 202
             /\ st = "SUCCESS" <=> (r.code = 200 /\ r.result = backend[j].info)
             /\ st = "FAILURE" <=> (r.code >= 500 /\ r.error # "")

\* C5: for an existing job GET /job-status always gives a status out of
\* pending, processing, completed, failed, and a failed job has an error
\* string.
C5_StatusWellFormed ==
    \A j \in Ids :
       HasRecord(j) =>
          LET r == get_job_status(j)
          IN /\ r.code = 200
             /\ r.status \in {"pending", "processing", "completed", "failed"}
             /\ r.status = "failed" => r.error # ""

\* C6: a job id that was never issued or whose record has expired gets a
\* not-found answer from GET /job-status and from GET /job-result.
C6_UnknownJobNotFound ==
    \A j \in Ids :
       ~HasRecord(j) =>
          /\ get_job_status(j).code = 404
          /\ get_job_result(j).code = 404

\* C7: the steps of wait_for_job_completion (its GET /job-status and
\* GET /job-result calls and its timeout) leave the job record, the task
\* state, the queue and the workers unchanged; the value timeout is never
\* in the store; the client returns timeout only when max_wait_time has
\* run out, and returns anything else only after a poll that reported a
\* terminal status.
C7_PollingFrame ==
    /\ [][client' # client => UNCHANGED pipeVars]_vars
    /\ [](\A j \in Ids : /\ store[j].status \in {"absent", "pending"}
                         /\ Lower(backend[j].state) # "timeout")
    /\ [](client.pc = "done" =>
             /\ client.ret \in {"completed", "failed", "timeout"}
             /\ client.ret = "timeout" => client.elapsed >= MaxWaitPolls)
    /\ [][(client.pc # "done" /\ client'.pc = "done" /\ client'.ret # "timeout")
             => \/ client.pc = "fetch"
                \/ get_job_status(client.job).status \in TerminalStatus]_vars

\* the client has timed out on a job that is enqueued and not finished
C7_Witness ==
    /\ client.pc = "done"
    /\ client.ret = "timeout"
    /\ HasRecord(client.job)
    /\ Enqueued(client.job)
    /\ ~Finished(client.job)

\* C8: an accepted POST /register-traces enqueues exactly one
\* process_traces task and writes exactly one job record with status
\* pending; the job_id answered and the key of the record are the id the
\* queue issued for that task, not the uuid the handler generated; the
\* answer has status pending.
C8_OneJobPerSubmission ==
    [][(Len(postLog') = Len(postLog) + 1 /\ postLog'[Len(postLog')].code = 200)
          => LET r == postLog'[Len(postLog')]
                 n == Len(postLog)
             IN /\ Len(sentLog') = Len(sentLog) + 1
                /\ sentLog'[Len(sentLog')] = r.job_id
                /\ ~Enqueued(r.job_id)
                /\ queue' = queue (+) SetToBag({[id |-> r.job_id, retries |-> 0,
                                                 countdown |-> 0]})
                /\ r.job_id = Uuid4(2 * n + 2)
                /\ r.job_id # Uuid4(2 * n + 1)
                /\ ~HasRecord(r.job_id)
                /\ store' = [store EXCEPT ![r.job_id] =
                                [status |-> "pending", job_id |-> r.job_id,
                                 original_job_id |-> Uuid4(2 * n + 1)]]
                /\ r.status = "pending"]_vars

\* a submission was accepted: its task is enqueued and its record is there
C8_Witness ==
    /\ Len(postLog) >= 1
    /\ postLog[1].code = 200
    /\ Enqueued(postLog[1].job_id)
    /\ store[postLog[1].job_id].status = "pending"

\* ------------------------------------------------- Trace Mapper claims
\* the content of the event is a mapping, string or list (or is missing)
\* and none of the variant keys of trace_mappings is found in it
NoVariantKey(bedrock_trace) ==
    LET trace_content == Get(bedrock_trace, "trace", EmptyDict)
    IN /\ ~InRaises(trace_content)
       /\ \A n \in 1..Len(trace_mappings) : ~In(trace_mappings[n], trace_content)

\* no variant key can be found in the event: there is none, or the content
\* is None or a number and cannot be searched
Unparsable(bedrock_trace) ==
    \/ NoVariantKey(bedrock_trace)
    \/ InRaises(Get(bedrock_trace, "trace", EmptyDict))

\* the batch without its unparsable events
WithoutUnparsable(batch) == SelectSeq(batch, LAMBDA e : ~Unparsable(e))

\* what the loop of register_traces gives for a batch
LoopResult(batch) ==
    LoopFrom([processed_objects |-> <<>>, totals |-> NoCounts, attached |-> <<>>],
             batch, 0)

\* C9: map_bedrock_trace never raises: whatever the event holds, a call
\* returns a sequence of mapped objects.
C9_MapperNeverRaises == \A n \in 1..Len(mapOut) : ~mapOut[n].raised

\* C10 as stated: an event in which none of the expected keys is found is
\* mapped to exactly one fallback object of type event with level WARNING,
\* and the events after it are processed as without it: the objects of the
\* request are those made up to that event followed by those the later
\* events give on their own.
C10_UnparsableYieldsFallback ==
    /\ \A n \in 1..Len(mapOut) :
          Unparsable(traces[n]) =>
             /\ ~mapOut[n].raised
             /\ Len(mapOut[n].objects) = 1
             /\ mapOut[n].objects[1].type = "event"
             /\ mapOut[n].objects[1].level = "WARNING"
    /\ summary.status = "success" =>
          \A n \in 1..Len(traces) :
             Unparsable(traces[n]) =>
                processed_objects =
                    LoopResult(SubSeq(traces, 1, n)).processed_objects \o
                    LoopResult(SubSeq(traces, n + 1, Len(traces))).processed_objects

\* C10 amended: an event in which none of the expected keys is found yields
\* no mapped object and no fallback event: map_bedrock_trace returns the
\* empty sequence (it raises when the content is None or a number), the
\* loop of register_traces adds nothing to processed_objects and to the
\* counts for it (for None or a number it starts the span
\* processing_error_<i>), and the request ends with the objects and counts
\* of the batch without these events.
C10_NoKeyYieldsNothing ==
    /\ [](\A n \in 1..Len(mapOut) :
             /\ NoVariantKey(traces[n]) => mapOut[n] = Returned(<<>>)
             /\ (Unparsable(traces[n]) /\ ~NoVariantKey(traces[n])) => mapOut[n].raised)
    /\ [][(trace_index' = trace_index + 1 /\ Unparsable(traces[trace_index + 1])) =>
             /\ processed_objects' = processed_objects
             /\ totals' = totals
             /\ attached' =
                  IF NoVariantKey(traces[trace_index + 1]) THEN attached
                  ELSE Append(attached,
                              [name |-> "processing_error_" \o ToString(trace_index),
                               as_type |-> "span"])]_vars
    /\ [](summary.status = "success" =>
             LET expected == LoopResult(WithoutUnparsable(traces))
             IN /\ processed_objects = expected.processed_objects
                /\ summary.object_counts = expected.totals
                /\ summary.created_objects = Len(expected.processed_objects)
                /\ summary.processed_traces = Len(traces))

\* a request has been registered in which an event without any variant key
\* comes before an event that gives objects, and the mapper has seen both
C10_Witness ==
    /\ summary.status = "success"
    /\ Len(mapOut) = Len(traces)
    /\ Len(processed_objects) > 0
    /\ \E n \in 1..(Len(traces) - 1) :
          /\ NoVariantKey(traces[n])
          /\ mapOut[n] = Returned(<<>>)
          /\ ~Unparsable(traces[n + 1])
          /\ Len(mapOut[n + 1].objects) > 0

\* ---------------------------------------------------- Registrar claims
\* the sum of the values of a counts dictionary
SumCounts(c) ==
    c.generations + c.tools + c.retrievers + c.spans + c.guardrails + c.events

\* the loop of register_traces has met an event that raised
SomeEventRaised ==
    \E n \in 1..Len(attached) :
       \E i \in 0..Len(traces) :
          attached[n].name = "processing_error_" \o ToString(i)

\* C11: in every result register_traces returns, the sum of the values of
\* object_counts equals created_objects, whatever the events are and
\* whichever of them raised; the same holds of the totals and
\* processed_objects after every turn of the loop.
C11_CountsSumToCreated ==
    /\ SumCounts(totals) = Len(processed_objects)
    /\ summary.status = "success" =>
          SumCounts(summary.object_counts) = summary.created_objects

\* a request has returned with objects counted, one of them an event, and
\* with an event of the batch that raised
C11_Witness ==
    /\ summary.status = "success"
    /\ summary.created_objects > 0
    /\ summary.object_counts.events > 0
    /\ SomeEventRaised

\* C12: in every result register_traces returns, created_objects is the
\* number of nodes created in the backend beneath the root of the request:
\* every observation started under the root, at any depth, is counted once.
C12_CreatedEqualsNodes ==
    summary.status = "success" => summary.created_objects = Len(attached)

\* C13: object_counts and created_objects of a result are determined by
\* the traces of the request alone: they are what the loop gives for
\* these traces on a fresh registrar, whatever request was registered
\* before, and a request registered twice in a row gets the same
\* object_counts and created_objects both times.
C13_CountsDeterministic ==
    summary.status = "success" =>
       /\ summary.object_counts = LoopResult(traces).totals
       /\ summary.created_objects = Len(LoopResult(traces).processed_objects)
       /\ (earlier.status = "success" /\ earlier.traces = traces) =>
             /\ summary.object_counts = earlier.object_counts
             /\ summary.created_objects = earlier.created_objects

\* the same request has been registered twice in a row, with objects counted
C13_Witness ==
    /\ summary.status = "success"
    /\ earlier.status = "success"
    /\ earlier.traces = traces
    /\ summary.created_objects > 0
    /\ summary.object_counts = earlier.object_counts

\* ------------------------------------------------- mapping rule claims
\* the orchestration data of an event whose content is a mapping that
\* holds orchestration data in a mapping
IsOrchestrationEvent(bedrock_trace) ==
    LET trace_content == Get(bedrock_trace, "trace", EmptyDict)
    IN /\ IsDict(trace_content)
       /\ In("orchestrationTrace", trace_content)
       /\ IsDict(Item(trace_content, "orchestrationTrace"))

OrchestrationData(bedrock_trace) ==
    Item(Get(bedrock_trace, "trace", EmptyDict), "orchestrationTrace")

\* the mapped objects of one type among objs
OfType(objs, type) == SelectSeq(objs, LAMBDA o : o.type = type)

\* the number of action-group invocations the orchestration data lists
ActionGroupCount(o) ==
    IF In("actionGroupInvocations", o) /\ ~IterRaises(Item(o, "actionGroupInvocations"))
    THEN Len(Iter(Item(o, "actionGroupInvocations")))
    ELSE 0

\* C14: mapping an orchestration event gives exactly one generation if and
\* only if model-invocation input or output is present, one tool per
\* action-group invocation, one retriever if and only if a
\* knowledge-base lookup input or output is present, and nothing else when
\* there is no rationale and no code-interpreter invocation; a request of
\* the one orchestration event with a model call, one action-group
\* invocation and one knowledge-base lookup gets the object counts
\* generations 1, tools 1, retrievers 1 and no other.
C14_OrchestrationObjects ==
    /\ \A n \in 1..Len(mapOut) :
          IsOrchestrationEvent(traces[n]) =>
             LET o == OrchestrationData(traces[n])
                 objs == mapOut[n].objects
                 generations == IF \/ In("modelInvocationInput", o)
                                   \/ In("modelInvocationOutput", o) THEN 1 ELSE 0
                 retrievers == IF \/ In("knowledgeBaseLookupInput", o)
                                  \/ In("knowledgeBaseLookupOutput", o) THEN 1 ELSE 0
             IN /\ ~mapOut[n].raised
                /\ Len(OfType(objs, "generation")) = generations
                /\ Len(OfType(objs, "retriever")) = retrievers
                /\ (~In("codeInterpreterInvocations", o)) =>
                      Len(OfType(objs, "tool")) = ActionGroupCount(o)
                /\ (~In("rationale", o) /\ ~In("codeInterpreterInvocations", o)) =>
                      Len(objs) = generations + retrievers + ActionGroupCount(o)
    /\ (summary.status = "success" /\ traces = <<SampleOrchestration>>) =>
          summary.object_counts =
              [NoCounts EXCEPT !.generations = 1, !.tools = 1, !.retrievers = 1]

\* the guardrail data of an event whose content is a mapping that holds
\* guardrail data in a mapping with at least one field and with a textual
\* trace identifier when it has one
IsGuardrailEvent(bedrock_trace) ==
    LET trace_content == Get(bedrock_trace, "trace", EmptyDict)
        trace_data == Item(trace_content, "guardrailTrace")
    IN /\ IsDict(trace_content)
       /\ DOMAIN trace_content.v = {"guardrailTrace"}
       /\ IsDict(trace_data)
       /\ Truthy(trace_data)
       /\ Get(trace_data, "traceId", PyStr("")).t = "str"

GuardrailData(bedrock_trace) ==
    Item(Get(bedrock_trace, "trace", EmptyDict), "guardrailTrace")

\* the claim's flag: the action is BLOCKED or INTERVENED
ActionBlocks(trace_data) ==
    \/ Get(trace_data, "action", PyNone) = PyStr("BLOCKED")
    \/ Get(trace_data, "action", PyNone) = PyStr("INTERVENED")

ErrorSpan(i) == [name |-> "processing_error_" \o ToString(i), as_type |-> "span"]

\* C16: when the event of index i raises in the hierarchy builder, the
\* fallback span processing_error_<i> is started under the root and nothing
\* is counted for it; every event gets its turn before the summary is written
\* and an event that does not raise contributes what it gives on its own,
\* whatever raised before it; register_traces fails only when the flush
\* raises, never for an event.  In the worker's TraceRegistrar an event that
\* raises is recorded on the root span, every other event gets its span, and
\* the result is a success.
C16_BatchFailIsolation ==
    /\ [][trace_index' = trace_index + 1 =>
             LET result == _process_trace_hierarchically(traces[trace_index + 1])
             IN IF result.raised
                THEN /\ processed_objects' = processed_objects
                     /\ totals' = totals
                     /\ Len(attached') > Len(attached)
                     /\ attached'[Len(attached')] = ErrorSpan(trace_index)
                     /\ SubSeq(attached', 1, Len(attached)) = attached
                ELSE /\ processed_objects' = processed_objects \o result.objects
                     /\ attached' = attached \o result.attached]_vars
    /\ [](phase # "loop" => trace_index = Len(traces))
    /\ [][(summary'.status = "error" /\ summary.status # "error")
             => phase = "summarized"]_vars
    /\ [](exported # NoExport =>
             /\ exported.result.status = "success"
             /\ Len(exported.calls) = Len(traces) + 3
             /\ \A i \in 0..(Len(traces) - 1) :
                   exported.calls[i + 2] =
                      IF _process_single_trace(traces[i + 1]).raised
                      THEN Call("record_exception", ToString(i))
                      ELSE Call("start_span",
                                _process_single_trace(traces[i + 1]).span_name))

\* both registrars have returned success on a request whose first event
\* raised and whose second event gave objects
C16_Witness ==
    /\ summary.status = "success"
    /\ Len(traces) > 1
    /\ _process_trace_hierarchically(traces[1]).raised
    /\ \E n \in 1..Len(attached) : attached[n] = ErrorSpan(0) /\ n < Len(attached)
    /\ Len(processed_objects) > 0
    /\ exported.result.status = "success"
    /\ exported.calls[2].op = "record_exception"
    /\ exported.calls[3].op = "start_span"

\* the positions of the calls of one kind among the calls of TraceRegistrar
CallsOf(op) == {n \in 1..Len(exported.calls) : exported.calls[n].op = op}

\* C17: register_traces returns its success result only after flush has been
\* called and has returned; flush is called after the root's summary update,
\* which comes after the turn of the last event; no observation is started
\* once the summary is written.  In the worker's TraceRegistrar force_flush
\* is the last call, made once, after every span and after the status of the
\* root span is set.
C17_FlushBeforeSuccess ==
    /\ [](summary.status = "success" => phase = "returned")
    /\ [][(phase' # phase /\ phase' = "returned") => phase = "flushed"]_vars
    /\ [][(phase' # phase /\ phase' = "flushed") => phase = "summarized"]_vars
    /\ [][(phase' # phase /\ phase' = "summarized")
             => (phase = "loop" /\ trace_index = Len(traces))]_vars
    /\ [][attached' # attached => (phase = "loop" /\ phase' = "loop")]_vars
    /\ [](exported.result.status = "success" =>
             /\ CallsOf("force_flush") = {Len(exported.calls)}
             /\ CallsOf("set_status") = {Len(exported.calls) - 1}
             /\ \A n \in CallsOf("start_span") \cup CallsOf("record_exception") :
                   n < Len(exported.calls) - 1)

\* both registrars have returned success on a request for which
\* observations and spans were started
C17_Witness ==
    /\ summary.status = "success"
    /\ phase = "returned"
    /\ Len(attached) > 0
    /\ exported.result.status = "success"
    /\ Cardinality(CallsOf("start_span")) > 1

\* ------------------------------------------------- worker result claims
\* the dictionary process_traces returns, which the worker records as the
\* result of a completed job
TaskResult == process_traces_result(exported.result)

\* C18: when force_flush does not succeed, register_traces does not report
\* success and the task does not return a result for a completed job.
C18_TransportFailureEscalates ==
    exported.result.status = "success" => exported.result.flushed

\* the fields of a RegistrationResult the result of a job carries
RegistrationResultKeys == {"processed_traces", "created_objects", "object_counts"}

\* C19: the result the worker stores for a completed job carries
\* processed_traces, created_objects and object_counts, as the result of
\* LangfuseTraceRegistrar.register_traces does.
C19_WorkerResultIsRegistrationResult ==
    exported.result.status = "success" => RegistrationResultKeys \subseteq TaskResult.keys

\* ------------------------------------------------------ lifetime claims
\* POST /register-traces has answered 200 with this job id
Issued(j) == \E n \in 1..Len(postLog) : postLog[n].code = 200 /\ postLog[n].job_id = j

\* C20: the job record is written once, by POST /register-traces with its
\* 24 hour expiry, and is changed by no worker step, only dropped by the
\* expiry; while it exists, a job whose task has run to its end is reported
\* completed or failed by GET /job-status, and GET /job-result gives the
\* result of a completed job; once the record of an issued job has expired
\* both endpoints answer not found.
C20_RecordLifetime ==
    /\ [][\A j \in Ids :
             store[j]' # store[j] => (store[j] = NoRecord \/ store[j]' = NoRecord)]_vars
    /\ [](\A j \in Ids :
             (Issued(j) /\ HasRecord(j) /\ AtRest(j)) =>
                /\ get_job_status(j).status \in TerminalStatus
                /\ get_job_status(j).status = "completed" =>
                      get_job_result(j).code = 200)
    /\ [](\A j \in Ids :
             (Issued(j) /\ ~HasRecord(j)) =>
                /\ get_job_status(j).code = 404
                /\ get_job_result(j).code = 404)

\* ------------------------------------------ the builder and the mapper
\* the kinds of the objects the mapper has returned for the events of the
\* request, in submission order
RECURSIVE MappedKinds(_)
MappedKinds(outs) ==
    IF outs = <<>> THEN <<>>
    ELSE [n \in 1..Len(Head(outs).objects) |-> Head(outs).objects[n].type]
         \o MappedKinds(Tail(outs))

\* C21: the object_counts of a registered request are the per-kind tally of
\* the objects map_bedrock_trace returns for its events, in submission
\* order, and the objects the builder has processed are of these kinds in
\* this order, also for an event with more than one variant key.
C21_BuilderRealisesMapper ==
    (summary.status = "success" /\ Len(mapOut) = Len(traces)) =>
       /\ summary.object_counts = Tally(MappedKinds(mapOut))
       /\ processed_objects = MappedKinds(mapOut)

\* ------------------------------------------- isolation inside an event
\* the action-group invocations of orchestration data, when they can be
\* iterated
Actions(o) ==
    IF In("actionGroupInvocations", o) /\ ~IterRaises(Item(o, "actionGroupInvocations"))
    THEN Iter(Item(o, "actionGroupInvocations"))
    ELSE <<>>

\* the invocations for which _create_tool_from_action_group raises, and
\* those for which it returns a tool
RaisingActions(o) ==
    {k \in 1..Len(Actions(o)) : _create_tool_from_action_group(Actions(o)[k]).raised}

ToolActions(o) ==
    {k \in 1..Len(Actions(o)) :
        _create_tool_from_action_group(Actions(o)[k]) # Raised
        /\ _create_tool_from_action_group(Actions(o)[k]).objects # <<>>}

\* C22: when the extraction of one action-group invocation of an
\* orchestration event raises, the mapper still returns the tool of every
\* other invocation of the event, and, when the invocations are all the
\* event holds, one fallback event of level WARNING for each invocation that
\* raised and nothing else.
C22_SubElementIsolation ==
    \A n \in 1..Len(mapOut) :
       IsOrchestrationEvent(traces[n]) =>
          LET o == OrchestrationData(traces[n])
              objs == mapOut[n].objects
          IN /\ ~mapOut[n].raised
             /\ Len(OfType(objs, "tool")) >= Cardinality(ToolActions(o))
             /\ DOMAIN o.v = {"actionGroupInvocations"} =>
                   /\ Len(OfType(objs, "event")) = Cardinality(RaisingActions(o))
                   /\ \A k \in 1..Len(objs) :
                         objs[k].type = "event" => objs[k].level = "WARNING"
                   /\ Len(objs) = Cardinality(ToolActions(o))
                                    + Cardinality(RaisingActions(o))

IsPrefix(s, t) == Len(s) <= Len(t) /\ SubSeq(t, 1, Len(s)) = s

\* what the turn of the event of index i makes when it is taken on its own:
\* the observations it starts (its error span included) and the objects it
\* appends
TurnAlone(i) ==
    LoopTurn([processed_objects |-> <<>>, totals |-> NoCounts, attached |-> <<>>],
             traces[i + 1], i)

RECURSIVE TurnsInOrder(_)
TurnsInOrder(n) ==
    IF n = 0 THEN [attached |-> <<>>, processed_objects |-> <<>>]
    ELSE [attached |-> TurnsInOrder(n - 1).attached \o TurnAlone(n - 1).attached,
          processed_objects |-> TurnsInOrder(n - 1).processed_objects
                                  \o TurnAlone(n - 1).processed_objects]

\* C24: the events of a request are taken one at a time in submission
\* order; the observations started and the objects appended so far are those
\* of event 0, then those of event 1, and so on up to the last event taken
\* (the error span of an event that raised stands at the place of the
\* event); both sequences only grow at their end.
C24_SubmissionOrder ==
    /\ [][/\ trace_index' \in {trace_index, trace_index + 1}
          /\ IsPrefix(attached, attached')
          /\ IsPrefix(processed_objects, processed_objects')
          /\ traces' = traces]_vars
    /\ [](/\ attached = TurnsInOrder(trace_index).attached
          /\ processed_objects = TurnsInOrder(trace_index).processed_objects)

\* a request has been registered whose first event raised and whose second
\* event gave objects: the error span of the first stands before the
\* observations of the second
C24_Witness ==
    /\ phase = "returned"
    /\ Len(traces) = 2
    /\ _process_trace_hierarchically(traces[1]).raised
    /\ Len(TurnAlone(1).attached) > 0
    /\ TurnAlone(0).attached # TurnAlone(1).attached
    /\ attached = TurnAlone(0).attached \o TurnAlone(1).attached
    /\ attached[Len(TurnAlone(0).attached)] = ErrorSpan(0)

\* ------------------------------------------------- concurrency claims
\* the positions of process_traces at which a state of the job is still to
\* be written by the worker: STARTED is written, PROCESSING, SUCCESS,
\* FAILURE or RETRY are to come; at "ack" nothing is left to write
WritingPositions == {"started", "processing", "raised"}

\* the number of workers that are executing the task of job j
Executing(j) ==
    LET es == {e \in BagToSet(workers) : e.msg.id = j /\ e.pc \in WritingPositions}
        RECURSIVE Sum(_)
        Sum(S) == IF S = {} THEN 0
                  ELSE LET e == CHOOSE x \in S : TRUE
                       IN CopiesIn(e, workers) + Sum(S \ {e})
    IN Sum(es)

\* C25: the job record is written by POST /register-traces only, as the
\* pending record, and by no worker step; the task state of a job is
\* written only by a step of a worker that holds a message of the job; and
\* at no time do two workers execute the task of the same job.
C25_SingleWriter ==
    /\ [][\A j \in Ids :
             store[j]' # store[j] =>
                /\ workers' = workers
                /\ (store[j]' # NoRecord => (store[j] = NoRecord /\ store[j]'.status = "pending"))]_vars
    /\ [][\A j \in Ids :
             (backend[j]' # backend[j] /\ backend[j]' # NoEntry) =>
                /\ store' = store
                /\ \E e \in BagToSet(workers') : e.msg.id = j]_vars
    /\ [](\A j \in Ids : Executing(j) <= 1)

\* a message of job j is queued or held by a worker
Pending(j) ==
    \/ \E m \in BagToSet(queue) : m.id = j
    \/ \E e \in BagToSet(workers) : e.msg.id = j

ContainsPre(trace_data) == Substring("pre", Get(trace_data, "traceId", PyStr("")).v)

\* C27: the mapper names a guardrail object input_guardrail exactly when
\* the trace identifier of the event contains "pre", and output_guardrail
\* otherwise; the hierarchy builder names its observation guardrail_pre
\* exactly when the mapper names its object input_guardrail.
C27_GuardrailDirection ==
    /\ [](\A n \in 1..Len(mapOut) :
             IsGuardrailEvent(traces[n]) =>
                /\ mapOut[n].objects[1].name \in {"input_guardrail", "output_guardrail"}
                /\ mapOut[n].objects[1].name = "input_guardrail"
                      <=> ContainsPre(GuardrailData(traces[n])))
    /\ [][(trace_index' = trace_index + 1 /\ IsGuardrailEvent(traces[trace_index + 1])) =>
             /\ attached'[Len(attached')].name \in {"guardrail_pre", "guardrail_post"}
             /\ attached'[Len(attached')].name = "guardrail_pre"
                   <=> map_bedrock_trace(traces[trace_index + 1]).objects[1].name
                          = "input_guardrail"]_vars

\* ------------------------------------------------------ mapper purity
\* C28: two calls of map_bedrock_trace on equal events return equal
\* sequences of objects, fallback events and their metadata included, and a
\* call leaves the events of the request as they are.
C28_MapperPure ==
    /\ [](\A n \in 1..Len(mapOut) : \A m \in 1..Len(mapOut) :
             traces[n] = traces[m] => mapOut[n] = mapOut[m])
    /\ [][mapOut' # mapOut => traces' = traces]_vars

\* ------------------------------------------------- atomic submission
\* C29: a task is published only by a POST /register-traces that answers
\* 200: there are as many published tasks as 200 answers, and the job id of
\* every task that is queued or held by a worker was answered by a POST to
\* its submitter.
C29_SubmissionAtomic ==
    /\ Len(sentLog) = Cardinality({n \in 1..Len(postLog) : postLog[n].code = 200})
    /\ \A m \in BagToSet(queue) : Issued(m.id)
    /\ \A e \in BagToSet(workers) : Issued(e.msg.id)

\* ---------------------------------------------- one registration per job
\* C30: over all attempts of a job the hierarchy of its request is
\* registered in Langfuse at most once.
C30_AtMostOneRegistration == \A j \in Ids : delivered[j] <= 1

====
